---- MODULE Spec2Model ----
(***************************************************************************)
(* Reminder delivery engine of the task-manager bot.                       *)
(*                                                                         *)
(* The in-memory store `_data` (database.py) is shared by the command      *)
(* handlers (dispatcher thread) and by check_reminders (job-queue thread), *)
(* without a lock.  The handlers mutate the store and then call save_data; *)
(* check_reminders iterates over the store chat by chat, marking and       *)
(* queueing the due tasks, sends the queued reminders one by one and then  *)
(* calls save_data.  The steps of the two threads interleave; a chat that  *)
(* is created while the job iterates over the store makes the dict         *)
(* iterator raise RuntimeError, which ends the job.  save_data serialises  *)
(* the store into the buffer of the file object, and the buffer reaches    *)
(* DATA_FILE when the file object is closed.                               *)
(***************************************************************************)
EXTENDS Integers, Sequences, FiniteSets, TLC

(* ------------------------------ bounds --------------------------------- *)
\* number of task objects ever created
MaxTasks == 2
\* the last calendar day of a run of completions
MaxDay == 5

\* the chats that talk to the bot
Chats == {1, 2}
TaskIds == 1..MaxTasks
\* the instants at which the clock is observed (epoch seconds): the start, and
\* an hour and a second later, when a reminder set at the start for 30 minutes
\* later is half an hour overdue
Instants == {1000, 4601}
Epoch == CHOOSE t \in Instants : \A u \in Instants : t <= u
\* the "30 minutes" button of get_time_selection_keyboard
ThirtyMinutes == 30
\* the results of parse_time for the inputs of /remind: "30m"
ParsedTimes(t) == {t + 1800}

VARIABLES
    data,               \* _data: [order: creation order of chats, tasks: chat -> task list]
    file,               \* content of DATA_FILE, same shape as data
    now,                \* time.time()
    nextId,             \* identity of the next task object created
    tickPc,             \* check_reminders: "idle", "next", "body", "send", "save", "close"
    current_time,       \* check_reminders' local current_time (0 outside a run)
    scanSize,           \* size of the store when data.items() was taken
    scanPos,            \* number of chats the iterator has yielded
    reminders_to_send,  \* check_reminders' local list
    sendIdx,            \* position of the send loop in reminders_to_send
    buffer,             \* what the job's save_data has serialised and not yet written
    attempts,           \* history: number of send_message calls per task object
    failed,             \* history: task objects whose send_message raised
    stats,              \* chat_data['stats']['streaks'] of each chat
    day,                \* datetime.now().date(), as a day number
    time_str,           \* the argument of parse_time, a sequence of characters
    clock,              \* the clock parse_time reads: [date: day number, secs: second of the day]
    parsed,             \* <<>> before the call, <<r>> after parse_time returned r
    rerun              \* a second run of check_reminders: its position, its locals
                        \* and the task objects it has sent

\* the store, the file and the job
Engine == <<data, file, now, nextId, tickPc, current_time, scanSize, scanPos,
            reminders_to_send, sendIdx, buffer, attempts, failed>>
\* what the reminder engine never touches
Parser == <<time_str, clock, parsed>>
Aside == <<stats, day, Parser, rerun>>

vars == <<Engine, Aside>>

(* ------------------------------ database.py ---------------------------- *)
\* the task dict built by add_task; an absent 'reminder' key is 0, an absent
\* 'reminded' key is FALSE (task.get('reminded', False)); every caller leaves
\* priority=None, so the priority is 'normal'
new_task(id) ==
    [id |-> id, done |-> FALSE, active |-> TRUE, reminder |-> 0, reminded |-> FALSE,
     priority |-> "normal"]

EmptyData == [order |-> <<>>, tasks |-> [c \in Chats |-> <<>>]]

Exists(d, c) == \E k \in 1..Len(d.order) : d.order[k] = c

\* get_chat_data: create the chat lazily
get_chat_data(d, c) ==
    IF Exists(d, c) THEN d ELSE [d EXCEPT !.order = Append(@, c)]

add_task(tasks, id) == Append(tasks, new_task(id))

ValidIndex(tasks, task_index) == 0 <= task_index /\ task_index < Len(tasks)

mark_task_done(tasks, task_index) ==
    [tasks EXCEPT ![task_index + 1].done = TRUE]

delete_task(tasks, task_index) ==
    [tasks EXCEPT ![task_index + 1].active = FALSE]

clear_tasks(tasks) ==
    [i \in 1..Len(tasks) |-> [tasks[i] EXCEPT !.active = FALSE]]

set_reminder(tasks, task_index, reminder_time) ==
    [tasks EXCEPT ![task_index + 1].reminder = reminder_time]

\* get_tasks(chat_id): the listing of active, not-done tasks
get_tasks(tasks) == SelectSeq(tasks, LAMBDA t : t.active /\ ~t.done)

\* confirm_clear_completed: chat_data['tasks'] = [task for task in tasks if not done]
clear_completed(tasks) == SelectSeq(tasks, LAMBDA t : ~t.done)

\* chat_data['stats']['streaks'] of a chat created by get_chat_data; the date is
\* <<>> for None and <<d>> for the calendar day d
new_streaks == [current |-> 0, longest |-> 0, last_completion_date |-> <<>>]

(* ------------------------------ bot.py --------------------------------- *)
\* a variant that does not look at the reminded flag
DueIgnoringReminded(task, t) ==
    /\ task.active
    /\ task.reminder # 0
    /\ task.reminder <= t

\* a variant that does not compare the reminder with the current time
DueIgnoringTime(task, t) ==
    /\ task.active
    /\ task.reminder # 0
    /\ ~task.reminded

\* a variant that does not skip inactive tasks
DueIgnoringActive(task, t) ==
    /\ task.reminder # 0
    /\ task.reminder <= t
    /\ ~task.reminded

\* the condition under which the scan queues a task
Due(task, t) ==
    /\ task.active
    /\ task.reminder # 0
    /\ task.reminder <= t
    /\ ~task.reminded

\* task['reminded'] = True
MarkReminded(task) == [task EXCEPT !.reminded = TRUE]

\* the inner loop of the scan over one chat: the marked task list
ScanTasks(tasks, t) ==
    [i \in 1..Len(tasks) |-> IF Due(tasks[i], t) THEN MarkReminded(tasks[i]) ELSE tasks[i]]

\* the inner loop of the scan over one chat: the entries appended
ScanEntries(c, tasks, t) ==
    LET idx == SelectSeq([i \in 1..Len(tasks) |-> i], LAMBDA i : Due(tasks[i], t))
    IN  [k \in 1..Len(idx) |->
            [chat |-> c, task_id |-> idx[k] - 1, id |-> tasks[idx[k]].id]]

RECURSIVE ScanAll(_, _, _)
\* what a scan of the whole store at time t would queue
ScanAll(d, k, t) ==
    IF k > Len(d.order) THEN <<>>
    ELSE ScanEntries(d.order[k], d.tasks[d.order[k]], t) \o ScanAll(d, k + 1, t)

\* a variant that re-arms the reminder when the send raised
HandleSendErrorRetry(d, entry) ==
    [d EXCEPT !.tasks[entry.chat] =
        [i \in 1..Len(@) |-> IF @[i].id = entry.id
                              THEN [@[i] EXCEPT !.reminded = FALSE] ELSE @[i]]]

\* except Exception as e: logger.error(...) -- the store is left as it is
HandleSendError(d, entry) == d

\* a variant without the try/except: a send that raises ends the job
AfterSendNoExcept(k, n, ok) == IF ~ok THEN "idle" ELSE IF k < n THEN "send" ELSE "save"

\* where the send loop goes after entry k of n, whether the send raised or not
AfterSend(k, n, ok) == IF k < n THEN "send" ELSE "save"

\* a run of check_reminders that is not running, having sent the task objects sent
SecondIdle(sent) ==
    [pc |-> "idle", current_time |-> 0, size |-> 0, chat |-> 0, task |-> 0,
     reminders_to_send |-> <<>>, sendIdx |-> 0, sent |-> sent]

(* ------------------------------ initial state -------------------------- *)
InitStore ==
    /\ data = EmptyData
    /\ file = EmptyData
    /\ now = Epoch
    /\ nextId = 1
    /\ tickPc = "idle"
    /\ current_time = 0
    /\ scanSize = 0
    /\ scanPos = 0
    /\ reminders_to_send = <<>>
    /\ sendIdx = 0
    /\ buffer = EmptyData
    /\ attempts = [i \in TaskIds |-> 0]
    /\ failed = {}
    /\ stats = [c \in Chats |-> new_streaks]
    /\ day = 1
    /\ rerun = SecondIdle({})

Init ==
    /\ InitStore
    /\ time_str = <<>>
    /\ clock = [date |-> 0, secs |-> 0]
    /\ parsed = <<>>

TickVars == <<tickPc, current_time, scanSize, scanPos, reminders_to_send, sendIdx, buffer>>
History == <<attempts, failed>>

(* ------------------------------ the clock ------------------------------ *)
\* time passes from one observed instant to the next
Advance ==
    /\ \E t \in Instants :
          /\ t > now
          /\ \A u \in Instants : u > now => t <= u
          /\ now' = t
    /\ UNCHANGED <<data, file, nextId, TickVars, History>>
    /\ UNCHANGED Aside

(* ------------------------------ handlers ------------------------------- *)
\* a handler runs on the dispatcher thread; it mutates the store and ends in
\* update_chat_data -> save_data, which writes the whole live store. The first
\* message of a chat is its /add, so the other handlers find their chat.
\* /add <text>; chat ids are opaque, so the chats are numbered in the order in
\* which they first talk to the bot
AddTask(c) ==
    /\ nextId <= MaxTasks
    /\ \A b \in Chats : b < c => Exists(data, b)
    /\ LET d == get_chat_data(data, c)
       IN  data' = [d EXCEPT !.tasks[c] = add_task(@, nextId)]
    /\ nextId' = nextId + 1
    /\ file' = data'
    /\ UNCHANGED <<now, TickVars, History>>
    /\ UNCHANGED Aside

\* /done <n> (done_task_handler); for the reminder engine it stands for the
\* done:<i> button as well, which does the same to the task
MarkDone(c, task_index) ==
    /\ Exists(data, c)
    /\ ValidIndex(data.tasks[c], task_index)
    /\ data' = [data EXCEPT !.tasks[c] = mark_task_done(@, task_index)]
    /\ file' = data'
    /\ UNCHANGED <<now, nextId, TickVars, History>>
    /\ UNCHANGED Aside

\* confirm_delete
DeleteTask(c, task_index) ==
    /\ Exists(data, c)
    /\ ValidIndex(data.tasks[c], task_index)
    /\ data' = [data EXCEPT !.tasks[c] = delete_task(@, task_index)]
    /\ file' = data'
    /\ UNCHANGED <<now, nextId, TickVars, History>>
    /\ UNCHANGED Aside

\* confirm_clear
ClearTasks(c) ==
    /\ Exists(data, c)
    /\ data' = [data EXCEPT !.tasks[c] = clear_tasks(@)]
    /\ file' = data'
    /\ UNCHANGED <<now, nextId, TickVars, History>>
    /\ UNCHANGED Aside

\* confirm_clear_completed
ClearCompleted(c) ==
    /\ Exists(data, c)
    /\ data' = [data EXCEPT !.tasks[c] = clear_completed(@)]
    /\ file' = data'
    /\ UNCHANGED <<now, nextId, TickVars, History>>
    /\ UNCHANGED Aside

\* the time:<i>:<minutes> button
TimeButton(c, task_index, time_minutes) ==
    /\ Exists(data, c)
    /\ ValidIndex(data.tasks[c], task_index)
    /\ data' = [data EXCEPT !.tasks[c] = set_reminder(@, task_index, now + time_minutes * 60)]
    /\ file' = data'
    /\ UNCHANGED <<now, nextId, TickVars, History>>
    /\ UNCHANGED Aside

\* /remind <n> <time>, with reminder_time = parse_time(<time>)
RemindCommand(c, task_index, reminder_time) ==
    /\ Exists(data, c)
    /\ ValidIndex(get_tasks(data.tasks[c]), task_index)
    /\ data' = [data EXCEPT !.tasks[c] = set_reminder(@, task_index, reminder_time)]
    /\ file' = data'
    /\ UNCHANGED <<now, nextId, TickVars, History>>
    /\ UNCHANGED Aside

(* ------------------------------ check_reminders ------------------------ *)
\* the job's locals after it returned or died
TickOver ==
    /\ tickPc' = "idle"
    /\ current_time' = 0
    /\ scanSize' = 0
    /\ scanPos' = 0
    /\ reminders_to_send' = <<>>
    /\ sendIdx' = 0
    /\ buffer' = EmptyData

\* lines 113-119: the job starts and the iterator over data.items() yields the
\* first chat; a job that finds nothing due changes nothing and is left out
TickStart ==
    /\ tickPc = "idle"
    /\ ScanAll(data, 1, now) # <<>>
    /\ current_time' = now
    /\ scanSize' = Len(data.order)
    /\ scanPos' = 1
    /\ reminders_to_send' = <<>>
    /\ tickPc' = "body"
    /\ UNCHANGED <<data, file, now, nextId, sendIdx, buffer, History>>
    /\ UNCHANGED Aside

\* lines 120-131: the loop body for the chat the iterator yielded
TickBody ==
    /\ tickPc = "body"
    /\ LET chat_id == data.order[scanPos]
       IN  /\ reminders_to_send' = reminders_to_send \o
                  ScanEntries(chat_id, data.tasks[chat_id], current_time)
           /\ data' = [data EXCEPT !.tasks[chat_id] = ScanTasks(@, current_time)]
    /\ tickPc' = "next"
    /\ UNCHANGED <<file, now, nextId, current_time, scanSize, scanPos, sendIdx, buffer,
                   History>>
    /\ UNCHANGED Aside

\* line 119: the iterator yields the next chat
TickNext ==
    /\ tickPc = "next"
    /\ Len(data.order) = scanSize
    /\ scanPos < scanSize
    /\ scanPos' = scanPos + 1
    /\ tickPc' = "body"
    /\ UNCHANGED <<data, file, now, nextId, current_time, scanSize, reminders_to_send,
                   sendIdx, buffer, History>>
    /\ UNCHANGED Aside

\* line 119: a chat was created since data.items() was taken; the iterator
\* raises RuntimeError (dictionary changed size during iteration), nothing in
\* check_reminders catches it and the job dies
TickRaise ==
    /\ tickPc = "next"
    /\ Len(data.order) # scanSize
    /\ TickOver
    /\ UNCHANGED <<data, file, now, nextId, History>>
    /\ UNCHANGED Aside

\* line 119: the iterator is exhausted; lines 133-147 with an empty list do
\* nothing
TickScanDone ==
    /\ tickPc = "next"
    /\ Len(data.order) = scanSize
    /\ scanPos = scanSize
    /\ IF reminders_to_send = <<>>
       THEN TickOver
       ELSE /\ tickPc' = "send"
            /\ sendIdx' = 1
            /\ UNCHANGED <<current_time, scanSize, scanPos, reminders_to_send, buffer>>
    /\ UNCHANGED <<data, file, now, nextId, History>>
    /\ UNCHANGED Aside

\* lines 134-143: one iteration of the send loop
TickSend(ok) ==
    /\ tickPc = "send"
    /\ LET e == reminders_to_send[sendIdx]
       IN  /\ attempts' = [attempts EXCEPT ![e.id] = @ + 1]
           /\ failed' = IF ok THEN failed ELSE failed \cup {e.id}
           /\ data' = IF ok THEN data ELSE HandleSendError(data, e)
    /\ tickPc' = AfterSend(sendIdx, Len(reminders_to_send), ok)
    /\ sendIdx' = sendIdx + 1
    /\ UNCHANGED <<file, now, nextId, current_time, scanSize, scanPos, reminders_to_send,
                   buffer>>
    /\ UNCHANGED Aside

\* lines 146-147: save_data(data), taken as one step
TickSave ==
    /\ tickPc = "save"
    /\ file' = data
    /\ TickOver
    /\ UNCHANGED <<data, now, nextId, History>>
    /\ UNCHANGED Aside

\* lines 146-147, save_data lines 29-30: open(DATA_FILE, 'w') and json.dump, which
\* serialises the store into the buffer of the file object
TickDump ==
    /\ tickPc = "save"
    /\ buffer' = data
    /\ tickPc' = "close"
    /\ UNCHANGED <<data, file, now, nextId, current_time, scanSize, scanPos,
                   reminders_to_send, sendIdx, History>>
    /\ UNCHANGED Aside

\* save_data line 30, the end of the with block: the file object is closed and
\* its buffer is written to DATA_FILE, over whatever was written there since
TickClose ==
    /\ tickPc = "close"
    /\ file' = buffer
    /\ TickOver
    /\ UNCHANGED <<data, now, nextId, History>>
    /\ UNCHANGED Aside

\* the handlers, and the job up to its save_data
Step ==
    \/ Advance
    \/ \E c \in Chats : AddTask(c)
    \/ \E c \in Chats, i \in 0..(MaxTasks - 1) : MarkDone(c, i)
    \/ \E c \in Chats, i \in 0..(MaxTasks - 1) : DeleteTask(c, i)
    \/ \E c \in Chats : ClearTasks(c)
    \/ \E c \in Chats : ClearCompleted(c)
    \/ \E c \in Chats, i \in 0..(MaxTasks - 1) : TimeButton(c, i, ThirtyMinutes)
    \/ \E c \in Chats, i \in 0..(MaxTasks - 1), t \in ParsedTimes(now) : RemindCommand(c, i, t)
    \/ TickStart
    \/ TickBody
    \/ TickNext
    \/ TickRaise
    \/ TickScanDone
    \/ \E ok \in BOOLEAN : TickSend(ok)

\* no action reads the file, so what is not said about the file does not depend
\* on how the write of the job is cut into steps
Next == Step \/ TickSave

Spec == Init /\ [][Next]_vars

\* lines 146-147 when save_data fails: open or json.dump raises, save_data logs
\* the error and returns False (database.py 34-36), and check_reminders does not
\* look at the result. The file is as it was when open raised, and cut short
\* when json.dump raised; a file cut short is read as the empty store by
\* initialize_database (database.py 23-25).
TickSaveFail(cut) ==
    /\ tickPc = "save"
    /\ file' = IF cut THEN EmptyData ELSE file
    /\ TickOver
    /\ UNCHANGED <<data, now, nextId, History>>
    /\ UNCHANGED Aside

\* the program on a disk that can fail under the job
NextStoreFailure == Next \/ \E cut \in BOOLEAN : TickSaveFail(cut)

SpecStoreFailure == Init /\ [][NextStoreFailure]_vars

(* ------------------------------ a second run of the job --------------- *)
\* check_reminders entered again while a run is in progress. The two runs share
\* the store; the test of a task (line 129) and its marking (line 131) are
\* separate steps of a thread, and the other run can act between them.
\* lines 113-119: the run starts and the iterator yields the first chat
SecondStart ==
    /\ rerun.pc = "idle"
    /\ tickPc # "idle"
    /\ ScanAll(data, 1, now) # <<>>
    /\ rerun' = [rerun EXCEPT !.pc = "test", !.current_time = now,
                                !.size = Len(data.order), !.chat = 1, !.task = 1]
    /\ UNCHANGED <<Engine, stats, day, Parser>>

\* lines 123-129: the next task of the chat is tested, or the list is exhausted
SecondTest ==
    /\ rerun.pc = "test"
    /\ LET tasks == data.tasks[data.order[rerun.chat]]
       IN  rerun' =
              IF rerun.task > Len(tasks) THEN [rerun EXCEPT !.pc = "next"]
              ELSE IF Due(tasks[rerun.task], rerun.current_time)
                   THEN [rerun EXCEPT !.pc = "mark"]
                   ELSE [rerun EXCEPT !.task = @ + 1]
    /\ UNCHANGED <<Engine, stats, day, Parser>>

\* lines 130-131: the task that passed the test is appended and marked
SecondMark ==
    /\ rerun.pc = "mark"
    /\ LET chat_id == data.order[rerun.chat]
           task == data.tasks[chat_id][rerun.task]
       IN  /\ rerun' = [rerun EXCEPT
                  !.reminders_to_send =
                      Append(@, [chat |-> chat_id, task_id |-> rerun.task - 1,
                                 id |-> task.id]),
                  !.task = @ + 1,
                  !.pc = "test"]
           /\ data' = [data EXCEPT !.tasks[chat_id][rerun.task] = MarkReminded(@)]
    /\ UNCHANGED <<file, now, nextId, TickVars, History, stats, day, Parser>>

\* line 119: the iterator yields the next chat, raises RuntimeError when a chat
\* was created since data.items() was taken, or is exhausted
SecondNext ==
    /\ rerun.pc = "next"
    /\ rerun' =
          IF Len(data.order) # rerun.size THEN SecondIdle(rerun.sent)
          ELSE IF rerun.chat < rerun.size
               THEN [rerun EXCEPT !.chat = @ + 1, !.task = 1, !.pc = "test"]
          ELSE IF rerun.reminders_to_send = <<>> THEN SecondIdle(rerun.sent)
          ELSE [rerun EXCEPT !.pc = "send", !.sendIdx = 1]
    /\ UNCHANGED <<Engine, stats, day, Parser>>

\* lines 134-143: one iteration of the send loop
SecondSend(ok) ==
    /\ rerun.pc = "send"
    /\ LET e == rerun.reminders_to_send[rerun.sendIdx]
       IN  /\ attempts' = [attempts EXCEPT ![e.id] = @ + 1]
           /\ failed' = IF ok THEN failed ELSE failed \cup {e.id}
           /\ data' = IF ok THEN data ELSE HandleSendError(data, e)
           /\ rerun' = [rerun EXCEPT
                  !.pc = AfterSend(rerun.sendIdx, Len(rerun.reminders_to_send), ok),
                  !.sendIdx = @ + 1,
                  !.sent = @ \cup {e.id}]
    /\ UNCHANGED <<file, now, nextId, TickVars, stats, day, Parser>>

\* lines 146-147: save_data(data)
SecondSave ==
    /\ rerun.pc = "save"
    /\ file' = data
    /\ rerun' = SecondIdle(rerun.sent)
    /\ UNCHANGED <<data, now, nextId, TickVars, History, stats, day, Parser>>

\* the reminders are set and fall due, and the job runs twice at a time
NextReentrant ==
    \/ Advance
    \/ \E c \in Chats : AddTask(c)
    \/ \E c \in Chats, i \in 0..(MaxTasks - 1) : TimeButton(c, i, ThirtyMinutes)
    \/ TickStart \/ TickBody \/ TickNext \/ TickRaise \/ TickScanDone
    \/ \E ok \in BOOLEAN : TickSend(ok)
    \/ TickSave
    \/ SecondStart \/ SecondTest \/ SecondMark \/ SecondNext
    \/ \E ok \in BOOLEAN : SecondSend(ok)
    \/ SecondSave

SpecReentrant == Init /\ [][NextReentrant]_vars

(* ------------------------------ priorities ---------------------------- *)
\* the levels that /priority accepts and that the priority keyboards offer
PriorityLevels == {"high", "medium", "low"}

\* for task in all_tasks: if text == tasks[task_index].text and active: set,
\* break. The tasks of a chat have distinct texts, so the id stands for the text.
set_priority_by_text(tasks, task_index, priority) ==
    LET listed == get_tasks(tasks)[task_index + 1]
        first == CHOOSE i \in 1..Len(tasks) :
                    /\ tasks[i].id = listed.id /\ tasks[i].active
                    /\ \A j \in 1..(i - 1) : ~(tasks[j].id = listed.id /\ tasks[j].active)
    IN  [tasks EXCEPT ![first].priority = priority]

\* /priority <n> <level> (priority_task_handler)
PriorityCommand(c, task_index, priority) ==
    /\ Exists(data, c)
    /\ ValidIndex(get_tasks(data.tasks[c]), task_index)
    /\ priority \in PriorityLevels
    /\ data' = [data EXCEPT !.tasks[c] = set_priority_by_text(@, task_index, priority)]
    /\ file' = data'
    /\ UNCHANGED <<now, nextId, TickVars, History>>
    /\ UNCHANGED Aside

\* the priority:<i>:<level> button: the index is checked against the listing of
\* get_tasks and applied to chat_data['tasks']
PriorityButton(c, task_index, priority_level) ==
    /\ Exists(data, c)
    /\ ValidIndex(get_tasks(data.tasks[c]), task_index)
    /\ task_index < Len(data.tasks[c])
    /\ data' = [data EXCEPT !.tasks[c][task_index + 1].priority = priority_level]
    /\ file' = data'
    /\ UNCHANGED <<now, nextId, TickVars, History>>
    /\ UNCHANGED Aside

NextPriority ==
    \/ \E c \in Chats : AddTask(c)
    \/ \E c \in Chats, i \in 0..(MaxTasks - 1) : MarkDone(c, i)
    \/ \E c \in Chats, i \in 0..(MaxTasks - 1) : DeleteTask(c, i)
    \/ \E c \in Chats, i \in 0..(MaxTasks - 1), p \in PriorityLevels : PriorityCommand(c, i, p)
    \/ \E c \in Chats, i \in 0..(MaxTasks - 1), p \in PriorityLevels : PriorityButton(c, i, p)

SpecPriority == Init /\ [][NextPriority]_vars

\* the same program with the job's write to DATA_FILE in its two steps
NextBuffered == Step \/ TickDump \/ TickClose

SpecBuffered == Init /\ [][NextBuffered]_vars

(* ------------------------------ streaks -------------------------------- *)
\* a variant that starts the longest streak afresh when the streak is broken
update_streaks_forgetful(streaks, today) ==
    LET last == streaks.last_completion_date
        cur  == IF Len(last) = 1 /\ today - last[1] <= 1
                THEN (IF today > last[1] THEN streaks.current + 1 ELSE streaks.current)
                ELSE 1
    IN  [current |-> cur, longest |-> cur, last_completion_date |-> <<today>>]

\* a variant that forgives one missed day
update_streaks_lenient(streaks, today) ==
    LET last == streaks.last_completion_date
    IN  IF Len(last) = 1 /\ today - last[1] <= 2 /\ today > last[1]
        THEN [current |-> streaks.current + 1,
              longest |-> IF streaks.current + 1 > streaks.longest
                          THEN streaks.current + 1 ELSE streaks.longest,
              last_completion_date |-> <<today>>]
        ELSE [streaks EXCEPT !.current = IF Len(last) = 1 /\ today = last[1] THEN @ ELSE 1,
                             !.last_completion_date = <<today>>]

\* a variant that counts every completion, the second of a day as well
update_streaks_eager(streaks, today) ==
    LET last == streaks.last_completion_date
    IN  IF Len(last) = 1 /\ today - last[1] <= 1
        THEN [current |-> streaks.current + 1,
              longest |-> IF streaks.current + 1 > streaks.longest
                          THEN streaks.current + 1 ELSE streaks.longest,
              last_completion_date |-> <<today>>]
        ELSE [streaks EXCEPT !.current = 1, !.last_completion_date = <<today>>]

\* handlers.py 569-591, the streak update of the done:<i> button
update_streaks(streaks, today) ==
    LET last == streaks.last_completion_date
    IN  IF Len(last) = 1
        THEN IF today - last[1] <= 1
             THEN IF today > last[1]
                  THEN [current |-> streaks.current + 1,
                        longest |-> IF streaks.current + 1 > streaks.longest
                                    THEN streaks.current + 1 ELSE streaks.longest,
                        last_completion_date |-> <<today>>]
                  ELSE [streaks EXCEPT !.last_completion_date = <<today>>]
             ELSE [streaks EXCEPT !.current = 1, !.last_completion_date = <<today>>]
        ELSE [streaks EXCEPT !.current = 1, !.last_completion_date = <<today>>]

\* the done:<i> button: mark_task_done, which does not look at the done flag
\* the task has, and then the streak update
DoneButton(c, task_index) ==
    /\ Exists(data, c)
    /\ ValidIndex(data.tasks[c], task_index)
    /\ data' = [data EXCEPT !.tasks[c] = mark_task_done(@, task_index)]
    /\ file' = data'
    /\ stats' = [stats EXCEPT ![c] = update_streaks(@, day)]
    /\ UNCHANGED <<now, nextId, TickVars, History, day, Parser, rerun>>

\* the calendar moves on by one day or more
NextDay ==
    /\ \E d \in 1..MaxDay : d > day /\ day' = d
    /\ UNCHANGED <<Engine, stats, Parser, rerun>>

NextStreak ==
    \/ NextDay
    \/ \E c \in Chats : AddTask(c)
    \/ \E c \in Chats, i \in 0..(MaxTasks - 1) : MarkDone(c, i)
    \/ \E c \in Chats, i \in 0..(MaxTasks - 1) : DoneButton(c, i)

SpecStreak == Init /\ [][NextStreak]_vars

(* ------------------------------ utils.py: characters ------------------- *)
Digits == <<"0", "1", "2", "3", "4", "5", "6", "7", "8", "9">>

IsDigit(ch) == \E v \in 1..10 : Digits[v] = ch

\* int() of one digit
DigitVal(ch) == (CHOOSE v \in 1..10 : Digits[v] = ch) - 1

\* s[i:], with i a position from 1
From(s, i) == SubSeq(s, i, Len(s))

RECURSIVE DigitsEnd(_, _)
\* \d+ from position i: the position after the longest run of digits
DigitsEnd(s, i) ==
    IF i <= Len(s) /\ IsDigit(s[i]) THEN DigitsEnd(s, i + 1) ELSE i

RECURSIVE SpacesEnd(_, _)
\* \s* from position i
SpacesEnd(s, i) ==
    IF i <= Len(s) /\ s[i] = " " THEN SpacesEnd(s, i + 1) ELSE i

RECURSIVE int(_, _, _)
\* int(s[i..j-1]) of a run of digits
int(s, i, j) ==
    IF j <= i THEN 0 ELSE int(s, i, j - 1) * 10 + DigitVal(s[j - 1])

\* the literal w stands in s at position i
HasAt(s, i, w) ==
    /\ i + Len(w) - 1 <= Len(s)
    /\ \A k \in 1..Len(w) : s[i + k - 1] = w[k]

\* str.startswith
StartsWith(s, w) == HasAt(s, 1, w)

RECURSIVE LStrip(_)
LStrip(s) == IF s # <<>> /\ s[1] = " " THEN LStrip(Tail(s)) ELSE s

RECURSIVE RStrip(_)
RStrip(s) ==
    IF s # <<>> /\ s[Len(s)] = " " THEN RStrip(SubSeq(s, 1, Len(s) - 1)) ELSE s

\* str.strip
Strip(s) == RStrip(LStrip(s))

(* ------------------------------ utils.py: parse_time_of_day ------------ *)
\* None
None == <<>>

\* a variant that drops the minutes
timedelta_hours_only(hours, minutes) == <<hours * 3600>>

\* timedelta(hours, minutes) as <<seconds>>
timedelta(hours, minutes) == <<hours * 3600 + minutes * 60>>

\* the truth value of an Optional[timedelta]: None and timedelta(0) are false
Truthy(time_delta) == time_delta # None /\ time_delta[1] # 0

InRange(hour, minute) == 0 <= hour /\ hour <= 23 /\ 0 <= minute /\ minute <= 59

\* (\d{1,2})(?::(\d{2}))?\s*(am|pm), fullmatch
AmPmTime(s) ==
    LET a == DigitsEnd(s, 1)
        colon == a <= Len(s) /\ s[a] = ":" /\ DigitsEnd(s, a + 1) = a + 3
        b == IF colon THEN a + 3 ELSE a
        w == SpacesEnd(s, b)
        am == HasAt(s, w, <<"a", "m">>)
        pm == HasAt(s, w, <<"p", "m">>)
        hour == int(s, 1, a)
        minute == IF colon THEN int(s, a + 1, a + 3) ELSE 0
        hour24 == IF pm /\ hour < 12 THEN hour + 12
                  ELSE IF am /\ hour = 12 THEN 0 ELSE hour
    IN  IF a \in {2, 3} /\ (am \/ pm) /\ w + 1 = Len(s) /\ InRange(hour24, minute)
        THEN timedelta(hour24, minute) ELSE None

\* (\d{1,2}):(\d{2}), fullmatch
HourMinTime(s) ==
    LET a == DigitsEnd(s, 1)
        hour == int(s, 1, a)
        minute == int(s, a + 1, a + 3)
    IN  IF /\ a \in {2, 3} /\ a <= Len(s) /\ s[a] = ":"
           /\ DigitsEnd(s, a + 1) = a + 3 /\ a + 2 = Len(s)
           /\ InRange(hour, minute)
        THEN timedelta(hour, minute) ELSE None

\* (\d{1,2})h(\d{2})?, fullmatch
HourHTime(s) ==
    LET a == DigitsEnd(s, 1)
        mins == DigitsEnd(s, a + 1) = a + 3
        hour == int(s, 1, a)
        minute == IF mins THEN int(s, a + 1, a + 3) ELSE 0
    IN  IF /\ a \in {2, 3} /\ a <= Len(s) /\ s[a] = "h"
           /\ (IF mins THEN a + 2 ELSE a) = Len(s)
           /\ InRange(hour, minute)
        THEN timedelta(hour, minute) ELSE None

\* (\d{1,2}), fullmatch: the hours from 13 to 23
HourOnlyTime(s) ==
    LET a == DigitsEnd(s, 1)
        hour == int(s, 1, a)
    IN  IF a \in {2, 3} /\ a = Len(s) + 1 /\ 13 <= hour /\ hour <= 23
        THEN timedelta(hour, 0) ELSE None

\* the first pattern that matches with values in range
parse_time_of_day(raw) ==
    LET s == Strip(raw)
    IN  IF AmPmTime(s) # None THEN AmPmTime(s)
        ELSE IF HourMinTime(s) # None THEN HourMinTime(s)
        ELSE IF HourHTime(s) # None THEN HourHTime(s)
        ELSE HourOnlyTime(s)

(* ------------------------------ utils.py: parse_time ------------------- *)
\* the local time zone is taken as one without an offset and without clock
\* changes, so a local date and second of the day make the timestamp
SecondsPerDay == 86400

timestamp(date, secs) == date * SecondsPerDay + secs

\* datetime.weekday(): Monday is 0; day 0 is Thursday 1 January 1970
weekday(date) == (date + 3) % 7

\* get_current_time(), read at the same instant as datetime.now()
get_current_time(k) == timestamp(k.date, k.secs)

\* pattern_short (?:(\d+)h)?\s*(?:(\d+)m)? with a group present: the delta
RelativeShort(s) ==
    LET a == DigitsEnd(s, 1)
        g1 == a > 1 /\ HasAt(s, a, <<"h">>)
        p1 == IF g1 THEN a + 1 ELSE 1
        p2 == SpacesEnd(s, p1)
        b == DigitsEnd(s, p2)
        g2 == b > p2 /\ HasAt(s, b, <<"m">>)
        p3 == IF g2 THEN b + 1 ELSE p2
        hours == IF g1 THEN int(s, 1, a) ELSE 0
        minutes == IF g2 THEN int(s, p2, b) ELSE 0
    IN  IF p3 = Len(s) + 1 /\ (g1 \/ g2) THEN timedelta(hours, minutes) ELSE None

\* (\d+)\s*<unit>s? from position i: the position after it, or 0
UnitEnd(s, i, unit) ==
    LET a == DigitsEnd(s, i)
        w == SpacesEnd(s, a)
        e == w + Len(unit)
    IN  IF a > i /\ HasAt(s, w, unit)
        THEN (IF HasAt(s, e, <<"s">>) THEN e + 1 ELSE e)
        ELSE 0

\* pattern_long (?:(\d+)\s*hours?)?\s*(?:(\d+)\s*minutes?)? with a group present
RelativeLong(s) ==
    LET e1 == UnitEnd(s, 1, <<"h", "o", "u", "r">>)
        p1 == IF e1 # 0 THEN e1 ELSE 1
        p2 == SpacesEnd(s, p1)
        e2 == UnitEnd(s, p2, <<"m", "i", "n", "u", "t", "e">>)
        p3 == IF e2 # 0 THEN e2 ELSE p2
        hours == IF e1 # 0 THEN int(s, 1, DigitsEnd(s, 1)) ELSE 0
        minutes == IF e2 # 0 THEN int(s, p2, DigitsEnd(s, p2)) ELSE 0
    IN  IF p3 = Len(s) + 1 /\ (e1 # 0 \/ e2 # 0) THEN timedelta(hours, minutes) ELSE None

\* a variant without the colon rule, so that H:MM reaches parse_time_of_day
RelativeColonOff(s) == None

\* pattern_colon (\d+):(\d+)
RelativeColon(s) ==
    LET a == DigitsEnd(s, 1)
        b == DigitsEnd(s, a + 1)
    IN  IF a > 1 /\ HasAt(s, a, <<":">>) /\ b > a + 1 /\ b = Len(s) + 1
        THEN timedelta(int(s, 1, a), int(s, a + 1, b)) ELSE None

\* days_of_week, in the order of the dict
days_of_week ==
    <<[day_name |-> <<"m", "o", "n", "d", "a", "y">>, day_num |-> 0],
       [day_name |-> <<"m", "o", "n">>, day_num |-> 0],
       [day_name |-> <<"t", "u", "e", "s", "d", "a", "y">>, day_num |-> 1],
       [day_name |-> <<"t", "u", "e">>, day_num |-> 1],
       [day_name |-> <<"t", "u", "e", "s">>, day_num |-> 1],
       [day_name |-> <<"w", "e", "d", "n", "e", "s", "d", "a", "y">>, day_num |-> 2],
       [day_name |-> <<"w", "e", "d">>, day_num |-> 2],
       [day_name |-> <<"t", "h", "u", "r", "s", "d", "a", "y">>, day_num |-> 3],
       [day_name |-> <<"t", "h", "u">>, day_num |-> 3],
       [day_name |-> <<"t", "h", "u", "r", "s">>, day_num |-> 3],
       [day_name |-> <<"f", "r", "i", "d", "a", "y">>, day_num |-> 4],
       [day_name |-> <<"f", "r", "i">>, day_num |-> 4],
       [day_name |-> <<"s", "a", "t", "u", "r", "d", "a", "y">>, day_num |-> 5],
       [day_name |-> <<"s", "a", "t">>, day_num |-> 5],
       [day_name |-> <<"s", "u", "n", "d", "a", "y">>, day_num |-> 6],
       [day_name |-> <<"s", "u", "n">>, day_num |-> 6]>>

\* the first entry of days_of_week whose name time_str starts with, or 0
FirstDayName(s) ==
    IF \E k \in 1..Len(days_of_week) : StartsWith(s, days_of_week[k].day_name)
    THEN CHOOSE k \in 1..Len(days_of_week) :
            /\ StartsWith(s, days_of_week[k].day_name)
            /\ \A j \in 1..(k - 1) : ~StartsWith(s, days_of_week[j].day_name)
    ELSE 0

\* the days until the next occurrence of the weekday named at the start of s
days_until(s, entry, k) ==
    LET until == (entry.day_num - weekday(k.date)) % 7
        time_delta == parse_time_of_day(Strip(From(s, Len(entry.day_name) + 1)))
    IN  IF /\ until = 0
           /\ Len(s) > Len(entry.day_name)
           /\ Truthy(time_delta)
           /\ time_delta[1] < k.secs
        THEN 7 ELSE until

(* ------------------------------ utils.py: dates ------------------------ *)
\* s[i], or "" outside s
At(s, i) == IF i \in 1..Len(s) THEN s[i] ELSE ""

Letters == {"a", "b", "c", "d", "e", "f", "g", "h", "i", "j", "k", "l", "m", "n", "o", "p", "q", "r", "s", "t", "u", "v", "w", "x", "y", "z"}

RECURSIVE LettersEnd(_, _)
\* [a-z]* from position i
LettersEnd(s, i) ==
    IF At(s, i) \in Letters THEN LettersEnd(s, i + 1) ELSE i

\* (\d{1,2})<sep>(\d{1,2})(?:<sep>(\d{2,4}))? matched at position i: the groups
\* and the position after the match, or None
NumericDateAt(s, i, sep) ==
    LET m_end == IF IsDigit(At(s, i)) /\ IsDigit(At(s, i + 1)) /\ At(s, i + 2) = sep
                 THEN i + 2
                 ELSE IF IsDigit(At(s, i)) /\ At(s, i + 1) = sep THEN i + 1 ELSE 0
        d_end == IF IsDigit(At(s, m_end + 2)) THEN m_end + 3 ELSE m_end + 2
        has_year == /\ At(s, d_end) = sep
                    /\ IsDigit(At(s, d_end + 1)) /\ IsDigit(At(s, d_end + 2))
        run == DigitsEnd(s, d_end + 1)
        y_end == IF run > d_end + 5 THEN d_end + 5 ELSE run
    IN  IF m_end = 0 \/ ~IsDigit(At(s, m_end + 1)) THEN None
        ELSE <<[month |-> int(s, i, m_end),
                day |-> int(s, m_end + 1, d_end),
                year |-> IF has_year THEN <<int(s, d_end + 1, y_end)>> ELSE None,
                end |-> IF has_year THEN y_end ELSE d_end]>>

\* month_names: the month of an abbreviation is its position
month_names ==
    <<<<"j", "a", "n">>,
      <<"f", "e", "b">>,
      <<"m", "a", "r">>,
      <<"a", "p", "r">>,
      <<"m", "a", "y">>,
      <<"j", "u", "n">>,
      <<"j", "u", "l">>,
      <<"a", "u", "g">>,
      <<"s", "e", "p">>,
      <<"o", "c", "t">>,
      <<"n", "o", "v">>,
      <<"d", "e", "c">>>>

\* (jan|...|dec)[a-z]* (\d{1,2})(?:,? (\d{4}))? matched at position i
NamedDateAt(s, i) ==
    LET named == \E m \in 1..12 : HasAt(s, i, month_names[m])
        e == LettersEnd(s, i + 3)
        d_end == IF IsDigit(At(s, e + 2)) THEN e + 3 ELSE e + 2
        q == IF At(s, d_end) = "," THEN d_end + 1 ELSE d_end
        has_year == At(s, q) = " " /\ DigitsEnd(s, q + 1) >= q + 5
    IN  IF ~named \/ At(s, e) # " " \/ ~IsDigit(At(s, e + 1)) THEN None
        ELSE <<[month |-> CHOOSE m \in 1..12 : HasAt(s, i, month_names[m]),
                day |-> int(s, e + 1, d_end),
                year |-> IF has_year THEN <<int(s, q + 1, q + 5)>> ELSE None,
                end |-> IF has_year THEN q + 5 ELSE d_end]>>

\* date_patterns: pattern n matched at position i
DateAt(s, i, n) ==
    IF n = 1 THEN NumericDateAt(s, i, "/")
    ELSE IF n = 2 THEN NumericDateAt(s, i, "-")
    ELSE NamedDateAt(s, i)

\* re.search(pattern, time_str): the leftmost match, or None
DateSearch(s, n) ==
    IF \E i \in 1..Len(s) : DateAt(s, i, n) # None
    THEN DateAt(s, CHOOSE i \in 1..Len(s) :
                      /\ DateAt(s, i, n) # None
                      /\ \A j \in 1..(i - 1) : DateAt(s, j, n) = None, n)
    ELSE None

IsLeap(year) == year % 4 = 0 /\ (year % 100 # 0 \/ year % 400 = 0)

DaysInMonth(year, month) ==
    IF month = 2 THEN (IF IsLeap(year) THEN 29 ELSE 28)
    ELSE IF month \in {4, 6, 9, 11} THEN 30 ELSE 31

\* datetime(year, month, day) does not raise ValueError
ValidDate(year, month, dom) ==
    /\ 1 <= year /\ year <= 9999
    /\ 1 <= month /\ month <= 12
    /\ 1 <= dom /\ dom <= DaysInMonth(year, month)

\* the day number of a date of the proleptic Gregorian calendar, day 0 being
\* 1 January 1970
DayNumber(year, month, dom) ==
    LET y == IF month <= 2 THEN year - 1 ELSE year
        era == y \div 400
        yoe == y - era * 400
        mp == IF month > 2 THEN month - 3 ELSE month + 9
        doy == (153 * mp + 2) \div 5 + dom - 1
        doe == yoe * 365 + yoe \div 4 - yoe \div 100 + doy
    IN  era * 146097 + doe - 719468

\* now.year, now.month, now.day of a day number
CivilDate(date) ==
    LET z == date + 719468
        era == z \div 146097
        doe == z - era * 146097
        yoe == (doe - doe \div 1460 + doe \div 36524 - doe \div 146096) \div 365
        doy == doe - (365 * yoe + yoe \div 4 - yoe \div 100)
        mp == (5 * doy + 2) \div 153
        month == IF mp < 10 THEN mp + 3 ELSE mp - 9
    IN  [year |-> yoe + era * 400 + (IF month <= 2 THEN 1 ELSE 0),
         month |-> month,
         day |-> doy - (153 * mp + 2) \div 5 + 1]

\* the body of the loop over date_patterns for one match: <<timestamp>> when it
\* returns, None when datetime() raised ValueError
DateResult(s, match, k) ==
    LET today == CivilDate(k.date)
        given == IF match.year # None THEN match.year[1] ELSE today.year
        year == IF given < 100 THEN given + 2000 ELSE given
        past == /\ DayNumber(year, match.month, match.day) < k.date
                /\ \/ match.month < today.month
                   \/ match.month = today.month /\ match.day < today.day
        target_year == IF past THEN year + 1 ELSE year
        time_part == Strip(From(s, match.end))
        time_delta == parse_time_of_day(time_part)
        secs == IF time_part = <<>> THEN 12 * 3600
                ELSE IF Truthy(time_delta) THEN time_delta[1] ELSE 0
    IN  IF /\ ValidDate(year, match.month, match.day)
           /\ ValidDate(target_year, match.month, match.day)
        THEN <<timestamp(DayNumber(target_year, match.month, match.day), secs)>>
        ELSE None

RECURSIVE DateLoop(_, _, _)
\* for pattern in date_patterns, from pattern n on
DateLoop(s, n, k) ==
    IF n > 3 THEN None
    ELSE IF DateSearch(s, n) # None /\ DateResult(s, DateSearch(s, n)[1], k) # None
         THEN DateResult(s, DateSearch(s, n)[1], k)
         ELSE DateLoop(s, n + 1, k)

\* what follows the day part: the time of day, with the wrap to tomorrow when
\* the day is today and the time has passed
TimeOfDayPart(s, days_offset, remaining_time_str, k) ==
    LET first == parse_time_of_day(remaining_time_str)
        remaining == IF remaining_time_str = <<>> THEN s ELSE remaining_time_str
        second == parse_time_of_day(remaining)
        wrap(target, offset) ==
            IF offset = 0 /\ target < get_current_time(k)
            THEN target + SecondsPerDay ELSE target
    IN  IF (days_offset > 0 \/ remaining_time_str # <<>>) /\ Truthy(first)
        THEN <<wrap(timestamp(k.date + days_offset, first[1]), days_offset)>>
        ELSE IF Truthy(second)
        THEN <<wrap(timestamp(k.date, second[1]), 0)>>
        ELSE None

\* the else branch of today/tomorrow: a weekday name, then the date patterns
\* when days_offset is 0
WeekdayOrDate(s, k) ==
    LET n == FirstDayName(s)
        days_offset == IF n = 0 THEN 0 ELSE days_until(s, days_of_week[n], k)
        remaining_time_str ==
            IF n = 0 THEN s ELSE Strip(From(s, Len(days_of_week[n].day_name) + 1))
    IN  IF days_offset = 0 /\ DateLoop(s, 1, k) # None
        THEN DateLoop(s, 1, k)
        ELSE TimeOfDayPart(s, days_offset, remaining_time_str, k)

\* parse_time(time_str) when the clock shows k: None, or <<timestamp>>. The
\* input is in lower case.
parse_time(raw, k) ==
    LET s == Strip(raw)
    IN  IF RelativeShort(s) # None THEN <<get_current_time(k) + RelativeShort(s)[1]>>
        ELSE IF RelativeLong(s) # None THEN <<get_current_time(k) + RelativeLong(s)[1]>>
        ELSE IF RelativeColon(s) # None THEN <<get_current_time(k) + RelativeColon(s)[1]>>
        ELSE IF StartsWith(s, <<"t", "o", "d", "a", "y">>) THEN TimeOfDayPart(s, 0, Strip(From(s, 6)), k)
        ELSE IF StartsWith(s, <<"t", "o", "m", "o", "r", "r", "o", "w">>) THEN TimeOfDayPart(s, 1, Strip(From(s, 9)), k)
        ELSE WeekdayOrDate(s, k)

(* ------------------------------ the inputs of parse_time --------------- *)
RECURSIVE Str(_)
\* the decimal digits of n
Str(n) == IF n < 10 THEN <<Digits[n + 1]>> ELSE Str(n \div 10) \o <<Digits[(n % 10) + 1]>>

\* n in two digits
Pad2(n) == IF n < 10 THEN <<"0">> \o Str(n) ELSE Str(n)

HourCounts == {0, 1, 2, 15}
MinuteCounts == {0, 5, 30, 90}

ShortHours(N) == Str(N) \o <<"h">>
ShortMinutes(M) == Str(M) \o <<"m">>
ShortForm(N, M) == ShortHours(N) \o <<" ">> \o ShortMinutes(M)

LongHours(N) == Str(N) \o (IF N = 1 THEN <<" ", "h", "o", "u", "r">> ELSE <<" ", "h", "o", "u", "r", "s">>)
LongMinutes(M) == Str(M) \o (IF M = 1 THEN <<" ", "m", "i", "n", "u", "t", "e">> ELSE <<" ", "m", "i", "n", "u", "t", "e", "s">>)
LongForm(N, M) == LongHours(N) \o <<" ">> \o LongMinutes(M)

RelativeInputs ==
    UNION {{ShortForm(N, M), LongForm(N, M), ShortHours(N), ShortMinutes(M),
            LongHours(N), LongMinutes(M)} : N \in HourCounts, M \in MinuteCounts}

ColonHours == {0, 1, 3, 15}
ColonMinutes == {0, 5, 30, 45}

\* H:MM
ColonForm(H, MM) == Str(H) \o <<":">> \o Pad2(MM)

ColonInputs == {ColonForm(H, MM) : H \in ColonHours, MM \in ColonMinutes}

\* times of day as the user writes them, with the second of the day they name
TimesOfDay ==
    {[text |-> <<"1", "0", "a", "m">>, secs |-> 36000],
     [text |-> <<"3", "p", "m">>, secs |-> 54000],
     [text |-> <<"1", "2", "a", "m">>, secs |-> 0],
     [text |-> <<"1", "5", ":", "0", "0">>, secs |-> 54000],
     [text |-> <<"1", "0", ":", "3", "0", "p", "m">>, secs |-> 81000]}

\* <weekday> <time-of-day>
WeekdayForm(day_name, tod) == day_name \o <<" ">> \o tod.text

WeekdayInputs ==
    {WeekdayForm(days_of_week[n].day_name, tod) : n \in 1..Len(days_of_week), tod \in TimesOfDay}

\* the day words on their own
DayWords ==
    {<<"t", "o", "d", "a", "y">>, <<"t", "o", "m", "o", "r", "r", "o", "w">>} \cup {days_of_week[n].day_name : n \in 1..Len(days_of_week)}

\* today <time-of-day> and tomorrow <time-of-day>
TodayForm(tod) == <<"t", "o", "d", "a", "y">> \o <<" ">> \o tod.text
TomorrowForm(tod) == <<"t", "o", "m", "o", "r", "r", "o", "w">> \o <<" ">> \o tod.text

DayInputs == {TodayForm(tod) : tod \in TimesOfDay} \cup {TomorrowForm(tod) : tod \in TimesOfDay}

\* a time of day on its own, in the forms that no earlier rule takes
ClockTimes == {tod \in TimesOfDay : \E i \in 1..Len(tod.text) : tod.text[i] = "m"}

BareTimeInputs == {tod.text : tod \in ClockTimes}

\* the dates written without a year: 3 January and 25 December
YearlessDates == {[month |-> 1, dom |-> 3], [month |-> 12, dom |-> 25]}

\* MM/DD, M-D and <month-name> D
SlashDate(d) == Pad2(d.month) \o <<"/">> \o Pad2(d.dom)
DashDate(d) == Str(d.month) \o <<"-">> \o Str(d.dom)
NamedDate(d) == month_names[d.month] \o <<" ">> \o Str(d.dom)

DateForms(d) == {SlashDate(d), DashDate(d), NamedDate(d)}

\* a date followed by a time of day
DateTimeForm(date_text, tod) == date_text \o <<" ">> \o tod.text

DateInputs ==
    UNION {DateForms(d) \cup {DateTimeForm(f, tod) : f \in DateForms(d), tod \in TimesOfDay}
           : d \in YearlessDates}

\* text that no rule accepts
Junk == <<"x", "y", "z">>

\* a date with text after it that is no time of day, and with text before it
JunkAfter(date_text) == date_text \o <<" ">> \o Junk
JunkBefore(date_text) == Junk \o <<" ">> \o date_text

JunkInputs ==
    UNION {{JunkAfter(f), JunkBefore(f)} : f \in DateForms([month |-> 12, dom |-> 25])}

TimeStrings ==
    RelativeInputs \cup ColonInputs \cup WeekdayInputs \cup DayWords \cup DayInputs
        \cup BareTimeInputs \cup DateInputs \cup JunkInputs

\* Monday 1 January 2024 to Sunday 7 January 2024
ClockDates == 19723..19729
\* 00:00:00, 10:00:00, 10:00:01, 15:00:00
ClockSeconds == {0, 36000, 36001, 54000}

Clocks == [date : ClockDates, secs : ClockSeconds]

\* a message with a time expression arrives at some instant
InitParse ==
    /\ InitStore
    /\ time_str \in TimeStrings
    /\ clock \in Clocks
    /\ parsed = <<>>

\* reminder_time = parse_time(time_input)
Parse ==
    /\ parsed = <<>>
    /\ parsed' = <<parse_time(time_str, clock)>>
    /\ UNCHANGED <<Engine, stats, day, time_str, clock, rerun>>

NextParse == Parse

SpecParse == InitParse /\ [][NextParse]_vars

(* ------------------------------ properties ----------------------------- *)
Positions(d) == {p \in Chats \X (1..MaxTasks) : p[2] <= Len(d.tasks[p[1]])}
TaskAt(d, p) == d.tasks[p[1]][p[2]]
InQueue(q, id) == \E k \in 1..Len(q) : q[k].id = id
\* the positions of the store that hold the task object id
Holding(d, id) == {p \in Positions(d) : TaskAt(d, p).id = id}
\* a step in which the scan appends the task object id
NewlyQueued(id) == InQueue(reminders_to_send', id) /\ ~InQueue(reminders_to_send, id)
\* every send_message call is for an entry of reminders_to_send
SendsFromQueue ==
    \A id \in TaskIds : attempts'[id] # attempts[id] => InQueue(reminders_to_send, id)
\* no handler has saved since the scan: the file still shows the queued tasks unmarked
FileBeforeScan ==
    /\ tickPc = "send"
    /\ sendIdx = 1
    /\ \A k \in 1..Len(reminders_to_send) :
          \E p \in Holding(file, reminders_to_send[k].id) : ~TaskAt(file, p).reminded

\* C1: at most once. No task object is ever handed to send_message twice, and a
\* task that was dispatched carries reminded = TRUE, so that a following tick
\* finds nothing to dispatch for it.
C1_AtMostOnce ==
    /\ \A id \in TaskIds : attempts[id] <= 1
    /\ \A p \in Positions(data) :
          attempts[TaskAt(data, p).id] >= 1 => TaskAt(data, p).reminded

\* a dispatched task is still active and past its reminder time, the job is
\* over, and a further scan at this instant would queue nothing
C1_Witness ==
    /\ tickPc = "idle"
    /\ ScanAll(data, 1, now) = <<>>
    /\ \E p \in Positions(data) :
          /\ attempts[TaskAt(data, p).id] = 1
          /\ TaskAt(data, p).active
          /\ TaskAt(data, p).reminder # 0
          /\ TaskAt(data, p).reminder <= now

\* C2: at most once under failure. A task whose send raised has been tried
\* exactly once and stays marked reminded, in the job that failed and after it.
C2_NoRetryAfterFailure ==
    \A id \in failed :
        /\ attempts[id] = 1
        /\ \A p \in Holding(data, id) : TaskAt(data, p).reminded

\* a task whose send raised, after the job, still active and past its time
C2_Witness ==
    /\ tickPc = "idle"
    /\ \E p \in Positions(data) :
          /\ TaskAt(data, p).id \in failed
          /\ TaskAt(data, p).active
          /\ TaskAt(data, p).reminder <= now
          /\ file = data

\* C3: a handler step that gives a task a new reminder value leaves it with
\* reminded = FALSE.
C3_ReassignRearms ==
    [][\A c \in Chats : \A i \in 1..Len(data.tasks[c]) :
          ( /\ i <= Len(data'.tasks[c])
            /\ data'.tasks[c][i].id = data.tasks[c][i].id
            /\ data'.tasks[c][i].reminder # data.tasks[c][i].reminder )
          => ~data'.tasks[c][i].reminded]_vars

\* C4: no early delivery. The job that read the clock at time t queues only
\* tasks whose reminder is set and not later than t, and only queued tasks are
\* sent.
C4_NoEarlyDelivery ==
    [][ /\ \A c \in Chats : \A i \in 1..Len(data.tasks[c]) :
              NewlyQueued(data.tasks[c][i].id) =>
                  /\ data.tasks[c][i].reminder # 0
                  /\ data.tasks[c][i].reminder <= current_time
                  /\ current_time <= now
        /\ SendsFromQueue ]_vars

\* a scan has just passed over an active, unmarked task whose reminder is
\* later than the scan time, and left it unqueued and unmarked
C4_Witness ==
    /\ FileBeforeScan
    /\ \E p \in Positions(data) :
          /\ TaskAt(data, p).active
          /\ TaskAt(data, p).reminder > current_time
          /\ ~TaskAt(data, p).reminded
          /\ p \in Positions(file)
          /\ TaskAt(file, p) = TaskAt(data, p)
          /\ ~InQueue(reminders_to_send, TaskAt(data, p).id)
          /\ attempts[TaskAt(data, p).id] = 0

\* C5: failure isolation. Whether or not a send raised, the send loop goes on:
\* the entries before the loop position have all been tried, and once the loop
\* is over every entry of reminders_to_send has been tried.
C5_FailureIsolation ==
    /\ tickPc = "send" =>
          \A k \in 1..Len(reminders_to_send) :
              k < sendIdx => attempts[reminders_to_send[k].id] = 1
    /\ tickPc \in {"save", "close", "idle"} =>
          \A k \in 1..Len(reminders_to_send) :
              attempts[reminders_to_send[k].id] = 1

\* the first send of a job raised and the next entry, of another chat, was
\* tried all the same
C5_Witness ==
    /\ tickPc = "save"
    /\ Len(reminders_to_send) = 2
    /\ reminders_to_send[1].id \in failed
    /\ reminders_to_send[1].chat # reminders_to_send[2].chat
    /\ attempts[reminders_to_send[2].id] = 1

\* C6: a soft-deleted task is never notified. The scan never queues a task
\* whose active flag is FALSE, and only queued tasks are sent.
C6_InactiveNeverQueued ==
    [][ /\ \A c \in Chats : \A i \in 1..Len(data.tasks[c]) :
              ~data.tasks[c][i].active => ~NewlyQueued(data.tasks[c][i].id)
        /\ SendsFromQueue ]_vars

\* a scan has just passed over a soft-deleted task whose reminder was due and
\* unmarked, and left it unqueued
C6_Witness ==
    /\ FileBeforeScan
    /\ \E p \in Positions(data) :
          /\ ~TaskAt(data, p).active
          /\ TaskAt(data, p).reminder # 0
          /\ TaskAt(data, p).reminder <= current_time
          /\ ~TaskAt(data, p).reminded
          /\ p \in Positions(file)
          /\ TaskAt(file, p) = TaskAt(data, p)
          /\ ~InQueue(reminders_to_send, TaskAt(data, p).id)
          /\ attempts[TaskAt(data, p).id] = 0

\* C7: a completed task is never notified. The scan never queues a task whose
\* done flag is TRUE.
C7_DoneNeverQueued ==
    [][\A c \in Chats : \A i \in 1..Len(data.tasks[c]) :
          data.tasks[c][i].done => ~NewlyQueued(data.tasks[c][i].id)]_vars

\* C8: missed reminders still fire. A due task ceases to be due only by being
\* marked reminded, and the job that marks it dispatches it: whenever no job is
\* running, every active task marked reminded has been sent exactly once.
C8_MissedStillFire ==
    tickPc = "idle" =>
        \A p \in Positions(data) :
            (TaskAt(data, p).active /\ TaskAt(data, p).reminded)
                => attempts[TaskAt(data, p).id] = 1

\* C9: no lost update. No write to DATA_FILE takes back a done or a reminded
\* flag that the file held for a task that stays in the file: what the handler
\* and the job have persisted stays persisted.
C9_NoLostUpdate ==
    [][\A c \in Chats : \A i \in 1..Len(file.tasks[c]) :
          \A j \in 1..Len(file'.tasks[c]) :
              file'.tasks[c][j].id = file.tasks[c][i].id =>
                  /\ file.tasks[c][i].done => file'.tasks[c][j].done
                  /\ file.tasks[c][i].reminded => file'.tasks[c][j].reminded]_vars

\* C10: tasks are never physically removed. Every step leaves every task at the
\* index it had.
C10_IndexStable ==
    [][\A c \in Chats : \A i \in 1..Len(data.tasks[c]) :
          /\ i <= Len(data'.tasks[c])
          /\ data'.tasks[c][i].id = data.tasks[c][i].id]_vars

\* C11: streak invariant. The longest streak of a chat is never less than its
\* current streak.
C11_LongestAtLeastCurrent ==
    \A c \in Chats : stats[c].longest >= stats[c].current

\* C12: monotonic streak. No step makes the longest streak of a chat smaller.
C12_LongestMonotonic ==
    [][\A c \in Chats : stats'[c].longest >= stats[c].longest]_vars

\* a streak of two days or more was broken and started again, and the longest
\* streak is still the old one
C12_Witness ==
    \E c \in Chats :
        /\ stats[c].longest >= 2
        /\ stats[c].current >= 1
        /\ stats[c].current < stats[c].longest

C14_CompletionUpdatesStreak ==
    [][\A c \in Chats : \A i \in 1..Len(data.tasks[c]) :
          ( /\ i <= Len(data'.tasks[c])
            /\ ~data.tasks[c][i].done
            /\ data'.tasks[c][i].done )
          => stats'[c].last_completion_date = <<day>>]_vars

\* C15: once per completion. A step in which no done flag of a chat goes from
\* FALSE to TRUE leaves the chat's streak counters as they were.
C15_NoTransitionNoUpdate ==
    [][\A c \in Chats :
          (\A i \in 1..Len(data.tasks[c]) :
               i <= Len(data'.tasks[c]) =>
                   (data'.tasks[c][i].done => data.tasks[c][i].done))
          => /\ stats'[c].current = stats[c].current
             /\ stats'[c].longest = stats[c].longest]_vars

\* C16: a store failure during a tick leaves the state unchanged. A job whose
\* save_data left DATA_FILE without the store leaves the tasks it had queued
\* with reminded = FALSE in the store, as they were before the job.
C16_FailedSaveRollsBack ==
    [][(tickPc = "save" /\ tickPc' = "idle" /\ file' # data') =>
          \A k \in 1..Len(reminders_to_send) :
              \A p \in Holding(data', reminders_to_send[k].id) :
                  ~TaskAt(data', p).reminded]_vars

\* C17: the priority of every task is one of high, normal, low.
C17_PriorityDomain ==
    \A c \in Chats : \A i \in 1..Len(data.tasks[c]) :
        data.tasks[c][i].priority \in {"high", "normal", "low"}

\* C18: for an input in the short form <N>h <M>m or the long form <N> hours
\* <M> minutes, with either component left out, parse_time returns
\* now + N*3600 + M*60; "1h 30m" gives now + 5400.
C18_RelativeForms ==
    parsed # <<>> =>
        /\ \A N \in HourCounts, M \in MinuteCounts :
              /\ time_str \in {ShortForm(N, M), LongForm(N, M)} =>
                    parsed[1] = <<get_current_time(clock) + N * 3600 + M * 60>>
              /\ time_str \in {ShortHours(N), LongHours(N)} =>
                    parsed[1] = <<get_current_time(clock) + N * 3600>>
              /\ time_str \in {ShortMinutes(M), LongMinutes(M)} =>
                    parsed[1] = <<get_current_time(clock) + M * 60>>
        /\ time_str = <<"1", "h", " ", "3", "0", "m">> =>
              parsed[1] = <<get_current_time(clock) + 5400>>

\* "1h 30m" and "1 hour 30 minutes" have been parsed to now + 5400
C18_Witness ==
    /\ parsed = <<(<<get_current_time(clock) + 5400>>)>>
    /\ time_str \in {<<"1", "h", " ", "3", "0", "m">>, LongForm(1, 30)}
    /\ clock.secs = 54000

FullDayNames == {n \in 1..Len(days_of_week) : Len(days_of_week[n].day_name) >= 6}

\* C20: <weekday> <time-of-day> resolves to the given time on the day
\* now + ((target - weekday(now)) mod 7) days, or 7 days later when that offset is
\* 0 and the time of day has passed today; the result is never before now.
C20_WeekdayRollover ==
    parsed # <<>> =>
        \A n \in FullDayNames, tod \in TimesOfDay :
            time_str = WeekdayForm(days_of_week[n].day_name, tod) =>
                LET offset == (days_of_week[n].day_num - weekday(clock.date)) % 7
                    days == IF offset = 0 /\ tod.secs < clock.secs THEN 7 ELSE offset
                IN  /\ parsed[1] = <<timestamp(clock.date + days, tod.secs)>>
                    /\ parsed[1][1] >= get_current_time(clock)

\* C21: 'today', 'tomorrow' or a weekday name with no time of day after it is
\* parsed, and the result is 12:00 on the resolved day.
C21_DefaultNoon ==
    parsed # <<>> =>
        /\ time_str = <<"t", "o", "d", "a", "y">> =>
              parsed[1] = <<timestamp(clock.date, 12 * 3600)>>
        /\ time_str = <<"t", "o", "m", "o", "r", "r", "o", "w">> =>
              parsed[1] = <<timestamp(clock.date + 1, 12 * 3600)>>
        /\ \A n \in 1..Len(days_of_week) :
              time_str = days_of_week[n].day_name =>
                  \E days \in 0..7 :
                      /\ (days_of_week[n].day_num - weekday(clock.date) - days) % 7 = 0
                      /\ parsed[1] = <<timestamp(clock.date + days, 12 * 3600)>>

\* C22: 'today <time-of-day>' gives that time of day on the calendar day of now.
C22_TodayIsOffsetZero ==
    parsed # <<>> =>
        \A tod \in TimesOfDay :
            time_str = TodayForm(tod) =>
                parsed[1] = <<timestamp(clock.date, tod.secs)>>

\* the entry of days_of_week with the full name of the weekday of entry n
FullNameOf(n) ==
    CHOOSE f \in FullDayNames : days_of_week[f].day_num = days_of_week[n].day_num

\* C23: every spelling of a weekday, full or abbreviated, followed by a time of
\* day (other than midnight) is parsed, and gives what the full name gives.
C23_AbbreviationsResolve ==
    parsed # <<>> =>
        \A n \in 1..Len(days_of_week), tod \in {t \in TimesOfDay : t.secs # 0} :
            time_str = WeekdayForm(days_of_week[n].day_name, tod) =>
                /\ parsed[1] # None
                /\ parsed[1] =
                     parse_time(WeekdayForm(days_of_week[FullNameOf(n)].day_name, tod), clock)

\* C24: a date without a year, with or without a time of day (12:00 without),
\* is taken in the current year unless that instant is before now, and then in
\* the next year; the result is never before now.
C24_YearlessNeverPast ==
    parsed # <<>> =>
        \A d \in YearlessDates : \A f \in DateForms(d) :
            LET year == CivilDate(clock.date).year
                instant(y, secs) == timestamp(DayNumber(y, d.month, d.dom), secs)
                expected(secs) ==
                    IF instant(year, secs) < get_current_time(clock)
                    THEN instant(year + 1, secs) ELSE instant(year, secs)
            IN  /\ time_str = f =>
                      /\ parsed[1] = <<expected(12 * 3600)>>
                      /\ parsed[1][1] >= get_current_time(clock)
                /\ \A tod \in TimesOfDay :
                      time_str = DateTimeForm(f, tod) =>
                          /\ parsed[1] = <<expected(tod.secs)>>
                          /\ parsed[1][1] >= get_current_time(clock)

\* C25: a time of day T on its own gives today at T when that is not before now
\* and tomorrow at T otherwise; the result lies in [now, now + 24 h].
C25_BareTimeOfDay ==
    parsed # <<>> =>
        \A tod \in ClockTimes :
            time_str = tod.text =>
                LET t == timestamp(clock.date, tod.secs)
                    expected == IF t >= get_current_time(clock) THEN t ELSE t + SecondsPerDay
                IN  /\ parsed[1] = <<expected>>
                    /\ get_current_time(clock) <= expected
                    /\ expected <= get_current_time(clock) + SecondsPerDay

\* C26: an input made of a date and of text that no rule accepts, after the
\* date or before it, is a parse failure and gives no timestamp.
C26_NoBestGuess ==
    (parsed # <<>> /\ time_str \in JunkInputs) => parsed[1] = None

C28_MarkAfterDispatch ==
    \A p \in Positions(data) :
        TaskAt(data, p).reminded => attempts[TaskAt(data, p).id] >= 1

C30_ListingIndexAgrees ==
    [][\A p \in Positions(data) :
          ( /\ p \in Positions(data')
            /\ TaskAt(data', p).id = TaskAt(data, p).id
            /\ \/ TaskAt(data', p).done # TaskAt(data, p).done
               \/ TaskAt(data', p).reminder # TaskAt(data, p).reminder
               \/ TaskAt(data', p).priority # TaskAt(data, p).priority )
          => TaskAt(data, p).active /\ ~TaskAt(data, p).done]_vars

====
